---- MODULE Spec2Model ----
(***************************************************************************)
(* A model of build.py, the Hautu Waka page builder.                       *)
(*                                                                         *)
(* Text.  A Python str is modelled as a sequence of symbols.  A symbol is  *)
(* either one character of record content ("a", "-", "'", ...), one        *)
(* literal chunk of an f-string of build.py (such as "</h3>"), or one of   *)
(* the five placeholder tokens of the template.  String concatenation and  *)
(* f-string interpolation are \o; str.replace is Replace below, a left to  *)
(* right scan for a sub-sequence.  Runs of indentation inside a literal    *)
(* chunk are written as one "\n".  The symbol "U+016A" stands for the      *)
(* character LATIN CAPITAL LETTER U WITH MACRON and "U+016B" for the small *)
(* letter: the module itself is plain ASCII.                               *)
(*                                                                         *)
(* A placeholder token is one symbol.  Every generated fragment starts     *)
(* with "\n" or "[" and no token holds either, so a token is never formed  *)
(* across the edge of an inserted fragment; nothing is lost by keeping     *)
(* the token atomic.                                                       *)
(***************************************************************************)
EXTENDS Integers, Sequences, FiniteSets, TLC

VARIABLES
    name, made_id,                       \* make_id: its argument, its result
    intro, stages, tools, muscles, sources, template,   \* the build's inputs
    tools_lookup, stages_lookup,         \* build_html: the two lookup dicts
    intro_html, tools_html, muscles_html, sources_html, \* build_html: locals
    stage_data, stage_data_js,           \* the projector's list and its dump
    html,                                \* build_html: the composed document
    prev_html, builds,                   \* the previous build's document
    plan, pc                             \* the statements to run, and the
                                         \* place of the next one in plan

inputs == <<intro, stages, tools, muscles, sources, template>>
lookups == <<tools_lookup, stages_lookup>>
fragments == <<intro_html, tools_html, muscles_html, sources_html,
               stage_data, stage_data_js>>
vars == <<name, made_id, inputs, lookups, fragments, html, prev_html,
          builds, plan, pc>>

----------------------------------------------------------------------------
(* Bounds of the model.                                                    *)

\* longest name handed to make_id
MaxLen == 3
\* most records in one list (tools, stages, muscles, items, ...)
MaxRecs == 2
\* most ids in one reference list (tool.stages, muscle.tools, ...)
MaxRefs == 2
\* most symbols in the template
MaxTpl == 3

----------------------------------------------------------------------------
(* Sequences and text.                                                     *)

\* all sequences over S of length at most n
SeqsUpTo(S, n) == UNION {[1..k -> S] : k \in 0..n}

\* the concatenation of a sequence of texts (by halves, to keep the
\* evaluation shallow)
RECURSIVE Concat(_)
Concat(ts) ==
    IF Len(ts) = 0 THEN <<>>
    ELSE IF Len(ts) = 1 THEN ts[1]
    ELSE LET h == Len(ts) \div 2
         IN  Concat(SubSeq(ts, 1, h)) \o Concat(SubSeq(ts, h + 1, Len(ts)))

\* [f(x) for x in s]
MapSeq(s, f(_)) == [i \in 1..Len(s) |-> f(s[i])]

\* whether text t holds the symbol c
Has(t, c) == \E i \in 1..Len(t) : t[i] = c

\* whether text t holds the text u as a contiguous part
HasSub(t, u) == \E i \in 0..(Len(t) - Len(u)) : SubSeq(t, i + 1, i + Len(u)) = u

\* str.replace(old, new) for a non-empty old: the leftmost occurrence is
\* replaced and the scan goes on after it, so occurrences do not overlap and
\* the inserted text is not scanned again
RECURSIVE Replace(_, _, _)
Replace(s, old, new) ==
    LET n == Len(old)
        starts == {i \in 1..(Len(s) - n + 1) : SubSeq(s, i, i + n - 1) = old}
    IN  IF starts = {} THEN s
        ELSE LET first == CHOOSE i \in starts : \A j \in starts : i <= j
             IN  SubSeq(s, 1, first - 1) \o new
                    \o Replace(SubSeq(s, first + n, Len(s)), old, new)

\* the characters with a lower-case partner, and that partner
UpperChars == {"A", "B", "U+016A"}
LowerChars == {"a", "b", "m", "s", "t", "U+016B"}
LowerOf(c) == CASE c = "A" -> "a"
                [] c = "B" -> "b"
                [] c = "U+016A" -> "U+016B"
                [] OTHER -> c
UpperOf(c) == CASE c = "a" -> "A"
                [] c = "b" -> "B"
                [] c = "m" -> "M"
                [] c = "s" -> "S"
                [] c = "t" -> "T"
                [] c = "U+016B" -> "U+016A"
                [] OTHER -> c

\* str.lower()
Lower(s) == [i \in 1..Len(s) |-> LowerOf(s[i])]

\* str.title(): a cased character is upper-cased after an uncased one (or at
\* the start) and lower-cased after a cased one
Cased(c) == c \in UpperChars \cup LowerChars \cup {"M", "S", "T"}
Title(s) == [i \in 1..Len(s) |->
               IF i > 1 /\ Cased(s[i - 1]) THEN LowerOf(s[i]) ELSE UpperOf(s[i])]

----------------------------------------------------------------------------
(* make_id.                                                                *)

\* a mutant: the apostrophe is kept
make_id_keeps_apostrophe(n) ==
    Replace(Replace(Replace(Replace(Lower(n),
        <<" ">>, <<"-">>), <<"(">>, <<>>), <<")">>, <<>>), <<"/">>, <<"-">>)

make_id(n) ==
    Replace(Replace(Replace(Replace(Replace(Lower(n),
        <<" ">>, <<"-">>), <<"(">>, <<>>), <<")">>, <<>>), <<"/">>, <<"-">>),
        <<"'">>, <<>>)

----------------------------------------------------------------------------
(* Records.  A JSON object is a function on its keys; an optional key is   *)
(* either outside the domain or inside it.  Every string value is a text.  *)

\* dict.get(key) taken as a condition: the key is there and its value is
\* not the empty string
Truthy(rec, key) == key \in DOMAIN rec /\ rec[key] # <<>>

\* {r["id"]: r for r in recs}: the last record of an id wins
Lookup(recs) ==
    [k \in {recs[i].id : i \in 1..Len(recs)} |->
        recs[CHOOSE i \in 1..Len(recs) :
                /\ recs[i].id = k
                /\ \A j \in (i + 1)..Len(recs) : recs[j].id # k]]

----------------------------------------------------------------------------
(* build_intro_html.                                                       *)

IntroBlockOpen == "\n<div class=\"intro-block\">\n<h3>"
IntroBlockMid == "</h3>\n<p>"

intro_section(section) ==
    <<IntroBlockOpen>> \o section.heading \o <<IntroBlockMid>>
        \o section.content \o <<"</p>\n</div>\n">>

video_html(rec) ==
    IF Truthy(rec, "video")
    THEN <<"\n<div class=\"video-embed\">\n<iframe src=\"">> \o rec.video
            \o <<"\" frameborder=\"0\" allowfullscreen></iframe>\n</div>\n">>
    ELSE <<>>

build_intro_html(i) ==
    <<"\n<section id=\"introduction\" class=\"section section-intro\">\n<div class=\"container\">\n<h1>">>
        \o i.title \o <<"</h1>\n<p class=\"subtitle\">">>
        \o i.subtitle \o <<"</p>\n<p class=\"hook\">">>
        \o i.hook \o <<"</p>\n">>
        \o Concat(MapSeq(i.sections, intro_section)) \o <<"\n">>
        \o video_html(i) \o <<"\n<div class=\"attribution\">\n<p>">>
        \o i.attribution.primary \o <<"</p>\n<p>">>
        \o i.attribution.organisations
        \o <<"</p>\n</div>\n</div>\n</section>\n">>

----------------------------------------------------------------------------
(* build_stage_overlay_data.                                               *)

\* a mutant: an id that does not resolve is kept, under its own text
stage_tools_keeps_dangling(stage, tl) ==
    MapSeq(stage.tools,
           LAMBDA t : [id |-> t,
                       name |-> IF t \in DOMAIN tl THEN tl[t].name ELSE t])

\* [{"id": t, "name": tools_lookup[t]["name"]} for t in stage["tools"]
\*  if t in tools_lookup]
stage_tools(stage, tl) ==
    MapSeq(SelectSeq(stage.tools, LAMBDA t : t \in DOMAIN tl),
           LAMBDA t : [id |-> t, name |-> tl[t].name])

\* the dict appended for one stage
stage_record(stage, tl) ==
    [id |-> stage.id,
     name_maori |-> stage.name_maori,
     name_english |-> stage.name_english,
     as_stage |-> stage.as_stage,
     as_state |-> stage.as_state,
     reflection_questions |-> stage.reflection_questions,
     tools |-> stage_tools(stage, tl),
     hotspot |-> stage.hotspot]

\* the list stage_data
stage_data_list(st, tl) == MapSeq(st, LAMBDA stage : stage_record(stage, tl))

\* json.dumps of one character of a str (ensure_ascii is on)
JsonChar(c) == CASE c = "\"" -> <<"\\\"">>
                 [] c = "\\" -> <<"\\\\">>
                 [] c = "U+016B" -> <<"\\u016b">>
                 [] c = "U+016A" -> <<"\\u016a">>
                 [] OTHER -> <<c>>

\* json.dumps of a str
JsonStr(t) == <<"\"">> \o Concat(MapSeq(t, JsonChar)) \o <<"\"">>

\* json.dumps of a list whose items are already dumped
JsonList(items) ==
    IF items = <<>> THEN <<"[]">>
    ELSE <<"[\n">>
         \o Concat([k \in 1..Len(items) |->
                IF k = 1 THEN items[k] ELSE <<",\n">> \o items[k]])
         \o <<"\n]">>

\* json.dumps of a dict given as a list of <<"\"key\": ", dumped value>>
JsonDict(pairs) ==
    IF pairs = <<>> THEN <<"{}">>
    ELSE <<"{\n">>
         \o Concat([k \in 1..Len(pairs) |->
                (IF k = 1 THEN <<>> ELSE <<",\n">>)
                    \o <<pairs[k][1]>> \o pairs[k][2]])
         \o <<"\n}">>

\* json.dumps of the hotspot, a dict of two numbers passed through
JsonHotspot(h) ==
    JsonDict(<< <<"\"x\": ", <<ToString(h.x)>> >>,
                <<"\"y\": ", <<ToString(h.y)>> >> >>)

\* json.dumps of one {"id": ..., "name": ...} of a stage's tools
JsonToolRef(r) ==
    JsonDict(<< <<"\"id\": ", JsonStr(r.id)>>,
                <<"\"name\": ", JsonStr(r.name)>> >>)

\* json.dumps of one projected stage; the keys in the order of the literal
JsonStage(r) ==
    JsonDict(<< <<"\"id\": ", JsonStr(r.id)>>,
                <<"\"name_maori\": ", JsonStr(r.name_maori)>>,
                <<"\"name_english\": ", JsonStr(r.name_english)>>,
                <<"\"as_stage\": ", JsonStr(r.as_stage)>>,
                <<"\"as_state\": ", JsonStr(r.as_state)>>,
                <<"\"reflection_questions\": ",
                  JsonList(MapSeq(r.reflection_questions, JsonStr))>>,
                <<"\"tools\": ", JsonList(MapSeq(r.tools, JsonToolRef))>>,
                <<"\"hotspot\": ", JsonHotspot(r.hotspot)>> >>)

\* json.dumps(stage_data, indent=2)
json_dumps(data) == JsonList(MapSeq(data, JsonStage))

build_stage_overlay_data(st, tl) == json_dumps(stage_data_list(st, tl))

----------------------------------------------------------------------------
(* build_tools_html.                                                       *)

BadgeOpen == "<span class=\"badge badge-stage\">"
BadgeClose == "</span> "
HrefOpen == "<a href=\"#"
MuscleAnchor == "muscle-"
ToolAnchor == "tool-"
MuscleLinkMid == "\" class=\"muscle-link\">"
LinkClose == "</a> "
DivIdOpen == "\n<div id=\""
ToolEntryMid == "\" class=\"tool-entry\">\n<h3>"

\* a mutant: a stage id that does not resolve gets a badge showing the id
stage_badges_keeps_dangling(tool, sl) ==
    Concat(MapSeq(tool.stages,
        LAMBDA stage_id :
            <<BadgeOpen>>
            \o (IF stage_id \in DOMAIN sl THEN sl[stage_id].name_maori
                ELSE stage_id)
            \o <<BadgeClose>>))

\* the loop over tool["stages"]
stage_badges(tool, sl) ==
    Concat(MapSeq(tool.stages,
        LAMBDA stage_id :
            IF stage_id \in DOMAIN sl
            THEN <<BadgeOpen>> \o sl[stage_id].name_maori \o <<BadgeClose>>
            ELSE <<>>))

\* a mutant: the link points at the slug of the id
muscle_links_slugged(tool) ==
    Concat(MapSeq(tool.muscles,
        LAMBDA muscle_id :
            <<HrefOpen, MuscleAnchor>> \o make_id(muscle_id) \o <<MuscleLinkMid>>
            \o Title(Replace(muscle_id, <<"-">>, <<" ">>)) \o <<LinkClose>>))

\* the loop over tool["muscles"]
muscle_links(tool) ==
    Concat(MapSeq(tool.muscles,
        LAMBDA muscle_id :
            <<HrefOpen, MuscleAnchor>> \o muscle_id \o <<MuscleLinkMid>>
            \o Title(Replace(muscle_id, <<"-">>, <<" ">>)) \o <<LinkClose>>))

\* what one tool adds to tools_html
tool_entry(tool, sl) ==
    <<DivIdOpen, ToolAnchor>> \o tool.id \o <<ToolEntryMid>>
        \o tool.name \o <<"</h3>\n<p class=\"description\">">>
        \o tool.description \o <<"</p>\n">>
        \o video_html(tool)
        \o <<"\n<div class=\"meta\">\n<div class=\"stages\">\n<span class=\"meta-label\">Used in:</span> ">>
        \o stage_badges(tool, sl)
        \o <<"\n</div>\n<div class=\"muscles\">\n<span class=\"meta-label\">Develops:</span> ">>
        \o muscle_links(tool)
        \o <<"\n</div>\n</div>\n</div>\n">>

\* a mutant: a tool none of whose stages resolve is left out
build_tools_html_skips_unused(tl, sl) ==
    <<"\n<section id=\"tools\" class=\"section section-tools\">\n<div class=\"container\">\n<h2>Tools</h2>\n<p class=\"section-intro\">Processes and methods that help navigate each stage. Click a muscle name to see what it means.</p>\n<div class=\"tools-list\">\n">>
        \o Concat(MapSeq(
              SelectSeq(tl, LAMBDA tool :
                  tool.stages = <<>>
                  \/ \E k \in 1..Len(tool.stages) : tool.stages[k] \in DOMAIN sl),
              LAMBDA tool : tool_entry(tool, sl)))
        \o <<"\n</div>\n</div>\n</section>\n">>

build_tools_html(tl, sl) ==
    <<"\n<section id=\"tools\" class=\"section section-tools\">\n<div class=\"container\">\n<h2>Tools</h2>\n<p class=\"section-intro\">Processes and methods that help navigate each stage. Click a muscle name to see what it means.</p>\n<div class=\"tools-list\">\n">>
        \o Concat(MapSeq(tl, LAMBDA tool : tool_entry(tool, sl)))
        \o <<"\n</div>\n</div>\n</section>\n">>

----------------------------------------------------------------------------
(* build_muscles_html.                                                     *)

NoTools == "<span class=\"no-tools\">No specific tools mapped</span>"
ToolLinkMid == "\" class=\"tool-link\">"
MuscleEntryMid == "\" class=\"muscle-entry\">\n<h4>"
DimensionOpen == "\n<div class=\"dimension\" id=\"dimension-"
DimensionMid == "\">\n<h3>"

\* a mutant: the placeholder also stands in when no id resolves
tool_links_placeholder_when_none(muscle, tl) ==
    IF \E k \in 1..Len(muscle.tools) : muscle.tools[k] \in DOMAIN tl
    THEN Concat(MapSeq(muscle.tools,
            LAMBDA tool_id :
                IF tool_id \in DOMAIN tl
                THEN <<HrefOpen, ToolAnchor>> \o tool_id \o <<ToolLinkMid>>
                        \o tl[tool_id].name \o <<LinkClose>>
                ELSE <<>>))
    ELSE <<NoTools>>

\* the if/else on muscle["tools"] and its loop
tool_links(muscle, tl) ==
    IF muscle.tools # <<>>
    THEN Concat(MapSeq(muscle.tools,
            LAMBDA tool_id :
                IF tool_id \in DOMAIN tl
                THEN <<HrefOpen, ToolAnchor>> \o tool_id \o <<ToolLinkMid>>
                        \o tl[tool_id].name \o <<LinkClose>>
                ELSE <<>>))
    ELSE <<NoTools>>

\* what one muscle adds to muscles_html
muscle_entry(muscle, tl) ==
    <<DivIdOpen, MuscleAnchor>> \o muscle.id \o <<MuscleEntryMid>>
        \o muscle.name \o <<"</h4>\n<p class=\"description\">">>
        \o muscle.description
        \o <<"</p>\n<div class=\"meta\">\n<span class=\"meta-label\">Developed by:</span> ">>
        \o tool_links(muscle, tl)
        \o <<"\n</div>\n</div>\n">>

\* what one dimension adds to dimensions_html
dimension_entry(dimension, tl) ==
    <<DimensionOpen>> \o dimension.id \o <<DimensionMid>>
        \o dimension.name \o <<" <span class=\"dimension-english\">(">>
        \o dimension.name_english
        \o <<")</span></h3>\n<p class=\"dimension-description\">">>
        \o dimension.description \o <<"</p>\n<div class=\"muscles-list\">\n">>
        \o Concat(MapSeq(dimension.muscles,
                         LAMBDA muscle : muscle_entry(muscle, tl)))
        \o <<"\n</div>\n</div>\n">>

build_muscles_html(md, tl) ==
    <<"\n<section id=\"muscles\" class=\"section section-muscles\">\n<div class=\"container\">\n<h2>Muscles</h2>\n<p class=\"section-intro\">">>
        \o md.intro \o <<"</p>\n<div class=\"dimensions\">\n">>
        \o Concat(MapSeq(md.dimensions,
                         LAMBDA dimension : dimension_entry(dimension, tl)))
        \o <<"\n</div>\n</div>\n</section>\n">>

----------------------------------------------------------------------------
(* build_sources_html.                                                     *)

\* " U+2014 " stands for the em-dash between two spaces
Dash == " U+2014 "
ItemOpen == "<li>"
ItemClose == "</li>"
ItemLinkOpen == "<a href=\""
ItemLinkMid == "\" target=\"_blank\">"
ItemLinkClose == "</a>"
CategoryOpen == "\n<div class=\"source-category\">\n<h3>"
CategoryMid == "</h3>\n<p class=\"category-description\">"

\* a mutant: the role is looked at before the author
item_detail_role_first(item) ==
    IF "title" \in DOMAIN item
    THEN IF Truthy(item, "author") THEN <<Dash>> \o item.author ELSE <<>>
    ELSE IF Truthy(item, "role") THEN <<Dash>> \o item.role
    ELSE IF Truthy(item, "author") THEN <<Dash>> \o item.author
    ELSE IF Truthy(item, "description") THEN <<Dash>> \o item.description
    ELSE <<>>

\* the detail of one item
item_detail(item) ==
    IF "title" \in DOMAIN item
    THEN IF Truthy(item, "author") THEN <<Dash>> \o item.author ELSE <<>>
    ELSE IF Truthy(item, "author") THEN <<Dash>> \o item.author
    ELSE IF Truthy(item, "role") THEN <<Dash>> \o item.role
    ELSE IF Truthy(item, "description") THEN <<Dash>> \o item.description
    ELSE <<>>

\* the name of one item
item_name(item) == IF "title" \in DOMAIN item THEN item.title ELSE item.name

\* what one item adds to items_html
item_entry(item) ==
    IF Truthy(item, "link")
    THEN <<ItemOpen, ItemLinkOpen>> \o item.link \o <<ItemLinkMid>>
            \o item_name(item) \o <<ItemLinkClose>> \o item_detail(item)
            \o <<ItemClose>>
    ELSE <<ItemOpen>> \o item_name(item) \o item_detail(item) \o <<ItemClose>>

\* what one category adds to categories_html
category_entry(category) ==
    <<CategoryOpen>> \o category.name
        \o <<CategoryMid>>
        \o category.description \o <<"</p>\n<ul>\n">>
        \o Concat(MapSeq(category.items, item_entry))
        \o <<"\n</ul>\n</div>\n">>

build_sources_html(so) ==
    <<"\n<section id=\"sources\" class=\"section section-sources\">\n<div class=\"container\">\n<h2>Mycorrhizal Network</h2>\n<p class=\"section-intro\">">>
        \o so.intro \o <<"</p>\n<div class=\"sources-grid\">\n">>
        \o Concat(MapSeq(so.categories, category_entry))
        \o <<"\n</div>\n</div>\n</section>\n">>

----------------------------------------------------------------------------
(* build_html, statement by statement.  plan lists the statements to run;  *)
(* each action runs the statement at place pc of it.                       *)

INTRO_SECTION == "{{INTRO_SECTION}}"
TOOLS_SECTION == "{{TOOLS_SECTION}}"
MUSCLES_SECTION == "{{MUSCLES_SECTION}}"
SOURCES_SECTION == "{{SOURCES_SECTION}}"
STAGE_DATA == "{{STAGE_DATA}}"
Tokens == {INTRO_SECTION, TOOLS_SECTION, MUSCLES_SECTION, SOURCES_SECTION,
           STAGE_DATA}

At(step) ==
    /\ pc <= Len(plan) /\ plan[pc] = step
    /\ pc' = pc + 1 /\ plan' = plan

\* make_id(name)
CallMakeId ==
    /\ At("make_id")
    /\ made_id' = make_id(name)
    /\ UNCHANGED <<name, inputs, lookups, fragments, html, prev_html, builds>>

\* tools_lookup = {...}; stages_lookup = {...}
MakeLookups ==
    /\ At("lookups")
    /\ tools_lookup' = Lookup(tools)
    /\ stages_lookup' = Lookup(stages)
    /\ UNCHANGED <<name, made_id, inputs, fragments, html, prev_html, builds>>

\* intro_html = build_intro_html(intro)
CallBuildIntro ==
    /\ At("intro")
    /\ intro_html' = build_intro_html(intro)
    /\ UNCHANGED <<name, made_id, inputs, lookups, tools_html, muscles_html,
                   sources_html, stage_data, stage_data_js, html, prev_html,
                   builds>>

\* tools_html = build_tools_html(tools, stages_lookup)
CallBuildTools ==
    /\ At("tools")
    /\ tools_html' = build_tools_html(tools, stages_lookup)
    /\ UNCHANGED <<name, made_id, inputs, lookups, intro_html, muscles_html,
                   sources_html, stage_data, stage_data_js, html, prev_html,
                   builds>>

\* a mutant: the renderer pops what it reads from the lookup it was handed
CallBuildMusclesPopsLookup ==
    /\ At("muscles")
    /\ muscles_html' = build_muscles_html(muscles, tools_lookup)
    /\ tools_lookup' = <<>>
    /\ UNCHANGED <<name, made_id, inputs, stages_lookup, intro_html,
                   tools_html, sources_html, stage_data, stage_data_js, html,
                   prev_html, builds>>

\* muscles_html = build_muscles_html(muscles, tools_lookup)
CallBuildMuscles ==
    /\ At("muscles")
    /\ muscles_html' = build_muscles_html(muscles, tools_lookup)
    /\ UNCHANGED <<name, made_id, inputs, lookups, intro_html, tools_html,
                   sources_html, stage_data, stage_data_js, html, prev_html,
                   builds>>

\* sources_html = build_sources_html(sources)
CallBuildSources ==
    /\ At("sources")
    /\ sources_html' = build_sources_html(sources)
    /\ UNCHANGED <<name, made_id, inputs, lookups, intro_html, tools_html,
                   muscles_html, stage_data, stage_data_js, html, prev_html,
                   builds>>

\* stage_data_js = build_stage_overlay_data(stages, tools_lookup)
CallBuildStageData ==
    /\ At("stage_data")
    /\ stage_data' = stage_data_list(stages, tools_lookup)
    /\ stage_data_js' = json_dumps(stage_data')
    /\ UNCHANGED <<name, made_id, inputs, lookups, intro_html, tools_html,
                   muscles_html, sources_html, html, prev_html, builds>>

\* html = template.replace("{{INTRO_SECTION}}", intro_html)
ReplaceIntro ==
    /\ At("replace_intro")
    /\ html' = Replace(template, <<INTRO_SECTION>>, intro_html)
    /\ UNCHANGED <<name, made_id, inputs, lookups, fragments, prev_html,
                   builds>>

\* html = html.replace("{{TOOLS_SECTION}}", tools_html)
ReplaceTools ==
    /\ At("replace_tools")
    /\ html' = Replace(html, <<TOOLS_SECTION>>, tools_html)
    /\ UNCHANGED <<name, made_id, inputs, lookups, fragments, prev_html,
                   builds>>

\* html = html.replace("{{MUSCLES_SECTION}}", muscles_html)
ReplaceMuscles ==
    /\ At("replace_muscles")
    /\ html' = Replace(html, <<MUSCLES_SECTION>>, muscles_html)
    /\ UNCHANGED <<name, made_id, inputs, lookups, fragments, prev_html,
                   builds>>

\* html = html.replace("{{SOURCES_SECTION}}", sources_html)
ReplaceSources ==
    /\ At("replace_sources")
    /\ html' = Replace(html, <<SOURCES_SECTION>>, sources_html)
    /\ UNCHANGED <<name, made_id, inputs, lookups, fragments, prev_html,
                   builds>>

\* html = html.replace("{{STAGE_DATA}}", stage_data_js)
ReplaceStageData ==
    /\ At("replace_stage_data")
    /\ html' = Replace(html, <<STAGE_DATA>>, stage_data_js)
    /\ UNCHANGED <<name, made_id, inputs, lookups, fragments, prev_html,
                   builds>>

\* build_html returns and is called again on the same records: the
\* document is kept for comparison and every local starts afresh
CallBuildHtmlAgain ==
    /\ At("again")
    /\ prev_html' = html
    /\ builds' = builds + 1
    /\ tools_lookup' = <<>> /\ stages_lookup' = <<>>
    /\ intro_html' = <<>> /\ tools_html' = <<>> /\ muscles_html' = <<>>
    /\ sources_html' = <<>> /\ stage_data' = <<>> /\ stage_data_js' = <<>>
    /\ html' = <<>>
    /\ UNCHANGED <<name, made_id, inputs>>

\* the five replace statements, in the order of build_html
ReplaceSteps == <<"replace_intro", "replace_tools", "replace_muscles",
                  "replace_sources", "replace_stage_data">>
\* the five generating calls, in the order of build_html
RenderSteps == <<"intro", "tools", "muscles", "sources", "stage_data">>
\* build_html from its first statement to its return
BuildSteps == <<"lookups">> \o RenderSteps \o ReplaceSteps

Done == pc > Len(plan)

----------------------------------------------------------------------------
(* Inputs.                                                                 *)

\* the state before the first statement, for records b and statements steps
Start(n, b, steps) ==
    /\ name = n /\ made_id = <<>>
    /\ intro = b.intro /\ stages = b.stages /\ tools = b.tools
    /\ muscles = b.muscles /\ sources = b.sources /\ template = b.template
    /\ tools_lookup = <<>> /\ stages_lookup = <<>>
    /\ intro_html = <<>> /\ tools_html = <<>> /\ muscles_html = <<>>
    /\ sources_html = <<>> /\ stage_data = <<>> /\ stage_data_js = <<>>
    /\ html = <<>> /\ prev_html = <<>> /\ builds = 1
    /\ plan = steps /\ pc = 1

\* the lists of at most n records with one record of V, at any place, among
\* records of Fill; and the empty list
ListsAround(V, Fill, n) ==
    {<<>>} \cup
    {l \in {pre \o <<v>> \o post :
                v \in V,
                pre \in SeqsUpTo(Fill, n - 1),
                post \in SeqsUpTo(Fill, n - 1)} : Len(l) <= n}


\* the records of the five data files, written out
MkStage(id, nm, tl) ==
    [id |-> id, name_maori |-> nm, name_english |-> <<"e">>,
     as_stage |-> <<"g">>, as_state |-> <<"h">>,
     reflection_questions |-> << <<"q">> >>, tools |-> tl,
     hotspot |-> [x |-> 1, y |-> 2]]
MkTool(id, nm, st, mu) ==
    [id |-> id, name |-> nm, description |-> <<"d">>, stages |-> st,
     muscles |-> mu]
MkMuscle(id, nm, tl) ==
    [id |-> id, name |-> nm, description |-> <<"d">>, tools |-> tl]
MkDimension(id, ms) ==
    [id |-> id, name |-> <<"n">>, name_english |-> <<"e">>,
     description |-> <<"d">>, muscles |-> ms]
MkTaxonomy(ds) == [intro |-> <<"i">>, dimensions |-> ds]
MkCategory(nm, its) == [name |-> nm, description |-> <<"d">>, items |-> its]
MkCatalogue(cs) == [intro |-> <<"i">>, categories |-> cs]
MkIntro(ti, secs) ==
    [title |-> ti, subtitle |-> <<"s">>, hook |-> <<"h">>, sections |-> secs,
     attribution |-> [primary |-> <<"p">>, organisations |-> <<"o">>]]
MkSection(h) == [heading |-> h, content |-> <<"c">>]

Intro0 == MkIntro(<<"t">>, <<>>)
FullTemplate == <<INTRO_SECTION, TOOLS_SECTION, MUSCLES_SECTION,
                  SOURCES_SECTION, STAGE_DATA>>

\* one build's records and template
Bundle(i, st, tl, mu, so, tp) ==
    [intro |-> i, stages |-> st, tools |-> tl, muscles |-> mu,
     sources |-> so, template |-> tp]
Bundle0 == Bundle(Intro0, <<>>, <<>>, MkTaxonomy(<<>>), MkCatalogue(<<>>),
                  FullTemplate)

\* ids: two that a record may carry and one that no record carries
T1 == <<"t", "1">>
T2 == <<"t", "2">>
T9 == <<"t", "9">>
S1 == <<"s", "1">>
S2 == <<"s", "2">>
S9 == <<"s", "9">>
M1 == <<"m", "-", "a">>
M2 == <<"M", " ", "b">>
M9 == <<"m", "9">>

----------------------------------------------------------------------------
(* SpecMakeId: make_id on every name of at most MaxLen characters.         *)

IdChars == {"A", "b", " ", "(", ")", "/", "'", "-"}

InitMakeId ==
    \E n \in SeqsUpTo(IdChars, MaxLen) : Start(n, Bundle0, <<"make_id">>)
NextMakeId == CallMakeId
SpecMakeId == InitMakeId /\ [][NextMakeId]_vars

\* the steps in the order the specification lists them
SlugInSpecOrder(n) ==
    Lower(Replace(Replace(Replace(Replace(Replace(n,
        <<"(">>, <<>>), <<")">>, <<>>), <<"/">>, <<"-">>), <<"'">>, <<>>),
        <<" ">>, <<"-">>))

----------------------------------------------------------------------------
(* Reading a generated text back.  Content is made of single characters    *)
(* and markup of literal chunks, so a chunk marks its place unambiguously. *)

\* the places of symbol sym in t, ascending
Positions(t, sym) ==
    SelectSeq([i \in 1..Len(t) |-> i], LAMBDA i : t[i] = sym)

\* the parts of t that follow each sym, each up to the next sym or the end
Chunks(t, sym) ==
    LET ps == Positions(t, sym)
    IN  [k \in 1..Len(ps) |->
            SubSeq(t, ps[k] + 1,
                   IF k < Len(ps) THEN ps[k + 1] - 1 ELSE Len(t))]

\* t up to its first sym (all of t when it holds none)
Upto(t, sym) ==
    IF Has(t, sym) THEN SubSeq(t, 1, Positions(t, sym)[1] - 1) ELSE t

\* t after its first sym (nothing when it holds none)
After(t, sym) ==
    IF Has(t, sym) THEN SubSeq(t, Positions(t, sym)[1] + 1, Len(t)) ELSE <<>>

\* the texts between each open and the close that follows it
Between(t, open, close) ==
    MapSeq(Chunks(t, open), LAMBDA c : Upto(c, close))

Taxonomy0 == MkTaxonomy(<<>>)
Catalogue0 == MkCatalogue(<<>>)

----------------------------------------------------------------------------
(* SpecTools: build_tools_html on tools whose stage ids resolve or not.    *)

StageVariants ==
    {MkStage(id, nm, <<>>) : id \in {S1, S2}, nm \in {<<"k">>, <<"l">>}}
StageRefTools ==
    {MkTool(T1, <<"H">>, refs, <<>>) : refs \in SeqsUpTo({S1, S2, S9}, MaxRefs)}
FillerTool == MkTool(T2, <<"K">>, <<S1>>, <<M1>>)

InitTools ==
    \E st \in SeqsUpTo(StageVariants, MaxRecs),
       tl \in ListsAround(StageRefTools, {FillerTool}, MaxRecs) :
        Start(<<>>, Bundle(Intro0, st, tl, Taxonomy0, Catalogue0, FullTemplate),
              <<"lookups", "tools">>)
NextTools == MakeLookups \/ CallBuildTools
SpecTools == InitTools /\ [][NextTools]_vars

\* the entries of tools_html, one text per tool entry
ToolEntries == Chunks(tools_html, DivIdOpen)

\* the names a tool's badges are to show: its stage ids that are keys of the
\* lookup, in the listed order
ResolvedStageNames(tool) ==
    MapSeq(SelectSeq(tool.stages, LAMBDA id : id \in DOMAIN stages_lookup),
           LAMBDA id : stages_lookup[id].name_maori)

\* C2: the stage badges build_tools_html emits for a tool are exactly the
\* tool's listed stage ids that are keys of the lookup, one badge per such id
\* in listed order, each showing that stage's name_maori; an id outside the
\* lookup gives no badge and no failure, and the tool's entry is still there.
C2_BadgesAreResolvedStages ==
    Done =>
        /\ Len(ToolEntries) = Len(tools)
        /\ \A i \in 1..Len(tools) :
            /\ Upto(ToolEntries[i], ToolEntryMid) = <<ToolAnchor>> \o tools[i].id
            /\ Between(ToolEntries[i], BadgeOpen, BadgeClose)
                 = ResolvedStageNames(tools[i])

\* a rendered tool lists a stage id that resolves and one that does not
C2_Witness ==
    /\ Done
    /\ tools_html # <<>>
    /\ \E i \in 1..Len(tools) :
        /\ \E k \in 1..Len(tools[i].stages) :
                tools[i].stages[k] \in DOMAIN stages_lookup
        /\ \E k \in 1..Len(tools[i].stages) :
                tools[i].stages[k] \notin DOMAIN stages_lookup


----------------------------------------------------------------------------
(* SpecLinks: build_tools_html and build_muscles_html on tools whose       *)
(* muscle ids are, or are not, ids of the taxonomy.                        *)

MuscleRefTools ==
    {MkTool(T1, <<"H">>, <<S1>>, refs) :
        refs \in SeqsUpTo({M1, M2, M9}, MaxRefs)}
MuscleVariants == {MkMuscle(id, <<"n">>, <<>>) : id \in {M1, M2}}
MuscleDimensions ==
    {MkDimension(<<"d", "1">>, ms) : ms \in SeqsUpTo(MuscleVariants, MaxRecs)}
FillerDimension == MkDimension(<<"d", "2">>, <<>>)

InitLinks ==
    \E tl \in ListsAround(MuscleRefTools, {FillerTool}, MaxRecs),
       ds \in ListsAround(MuscleDimensions, {FillerDimension}, MaxRecs) :
        Start(<<>>, Bundle(Intro0, <<>>, tl, MkTaxonomy(ds), Catalogue0,
                           FullTemplate),
              <<"lookups", "tools", "muscles">>)
NextLinks == MakeLookups \/ CallBuildTools \/ CallBuildMuscles
SpecLinks == InitLinks /\ [][NextLinks]_vars

\* the muscles of the taxonomy, dimension after dimension
AllMuscles == Concat(MapSeq(muscles.dimensions, LAMBDA d : d.muscles))

\* the targets of the muscle links of the i-th tool entry, without the "#"
LinkTargets(i) == Between(ToolEntries[i], HrefOpen, MuscleLinkMid)

\* the id attributes of the muscle entries of muscles_html
MuscleAnchors == Between(muscles_html, DivIdOpen, MuscleEntryMid)

\* C8: build_tools_html emits one muscle link per entry of a tool's muscles
\* list, in listed order, each to "#muscle-<id>", whether or not the id is in
\* the taxonomy; where a muscle of that id exists, the target is the anchor
\* id "muscle-<id>" build_muscles_html emits for it.
C8_MuscleLinksMatchAnchors ==
    Done =>
        /\ Len(ToolEntries) = Len(tools)
        /\ Len(MuscleAnchors) = Len(AllMuscles)
        /\ \A i \in 1..Len(tools) :
            /\ LinkTargets(i)
                 = MapSeq(tools[i].muscles, LAMBDA id : <<MuscleAnchor>> \o id)
            /\ \A j \in 1..Len(tools[i].muscles), k \in 1..Len(AllMuscles) :
                AllMuscles[k].id = tools[i].muscles[j]
                    => LinkTargets(i)[j] = MuscleAnchors[k]

\* a rendered tool links a muscle of the taxonomy and one that is not in it
C8_Witness ==
    /\ Done
    /\ tools_html # <<>> /\ muscles_html # <<>>
    /\ \E i \in 1..Len(tools) :
        /\ \E j \in 1..Len(tools[i].muscles), k \in 1..Len(AllMuscles) :
                AllMuscles[k].id = tools[i].muscles[j]
        /\ \E j \in 1..Len(tools[i].muscles) :
                \A k \in 1..Len(AllMuscles) :
                    AllMuscles[k].id # tools[i].muscles[j]


----------------------------------------------------------------------------
(* SpecMuscles: build_muscles_html on muscles whose tool ids resolve or    *)
(* not, or whose tools list is empty.                                      *)

ToolVariants ==
    {MkTool(id, nm, <<>>, <<>>) : id \in {T1, T2}, nm \in {<<"H">>, <<"K">>}}
ToolRefMuscles ==
    {MkMuscle(M1, <<"n">>, refs) : refs \in SeqsUpTo({T1, T2, T9}, MaxRefs)}
FillerMuscle == MkMuscle(M2, <<"n">>, <<T1>>)
ToolRefDimensions ==
    {MkDimension(<<"d", "1">>, ms) :
        ms \in ListsAround(ToolRefMuscles, {FillerMuscle}, MaxRecs)}

InitMuscles ==
    \E tl \in SeqsUpTo(ToolVariants, MaxRecs),
       ds \in ListsAround(ToolRefDimensions, {FillerDimension}, MaxRecs) :
        Start(<<>>, Bundle(Intro0, <<>>, tl, MkTaxonomy(ds), Catalogue0,
                           FullTemplate),
              <<"lookups", "muscles">>)
NextMuscles == MakeLookups \/ CallBuildMuscles
SpecMuscles == InitMuscles /\ [][NextMuscles]_vars

\* the entries of muscles_html, one text per muscle entry
MuscleEntries == Chunks(muscles_html, DivIdOpen)

\* a muscle's tool ids that are keys of the lookup, in the listed order
ResolvedTools(muscle) ==
    SelectSeq(muscle.tools, LAMBDA id : id \in DOMAIN tools_lookup)

\* C3: a muscle's entry holds the "No specific tools mapped" placeholder if
\* and only if its tools list is empty; a non-empty list of ids that do not
\* resolve gives no link and no placeholder, and otherwise there is one link
\* per resolving id, showing the tool's name, and no placeholder.
C3_PlaceholderIffEmpty ==
    Done =>
        /\ Len(MuscleEntries) = Len(AllMuscles)
        /\ \A k \in 1..Len(AllMuscles) :
            /\ Has(MuscleEntries[k], NoTools) <=> AllMuscles[k].tools = <<>>
            /\ Between(MuscleEntries[k], HrefOpen, ToolLinkMid)
                 = MapSeq(ResolvedTools(AllMuscles[k]),
                          LAMBDA id : <<ToolAnchor>> \o id)
            /\ Between(MuscleEntries[k], ToolLinkMid, LinkClose)
                 = MapSeq(ResolvedTools(AllMuscles[k]),
                          LAMBDA id : tools_lookup[id].name)

\* a rendered muscle lists tool ids none of which resolves
C3_Witness ==
    /\ Done
    /\ muscles_html # <<>>
    /\ \E k \in 1..Len(AllMuscles) :
        /\ AllMuscles[k].tools # <<>>
        /\ ResolvedTools(AllMuscles[k]) = <<>>


----------------------------------------------------------------------------
(* SpecSources: build_sources_html on items with every mix of the optional *)
(* keys, each absent, empty or filled.                                     *)

\* a key that is absent (c = <<>>) or there with the value c[1]
Opt(key, c) == IF c = <<>> THEN <<>> ELSE key :> c[1]
\* absent, the empty string, or the text v
Choices(v) == {<<>>, << <<>> >>, <<v>>}

SourceItems ==
    {Opt("title", ti) @@ Opt("name", nm) @@ Opt("author", au)
        @@ Opt("role", ro) @@ Opt("description", de) @@ Opt("link", li) :
        ti \in {<<>>, << <<"T">> >>},
        nm \in {<< <<"N">> >>},
        au \in Choices(<<"a">>),
        ro \in Choices(<<"r">>),
        de \in Choices(<<"e">>),
        li \in {<<>>, << <<"u">> >>}}
FillerItem == [name |-> <<"F">>, role |-> <<"r">>]
SourceCategories ==
    {MkCategory(<<"c">>, its) :
        its \in ListsAround(SourceItems, {FillerItem}, MaxRecs)}
FillerCategory == MkCategory(<<"f">>, <<>>)

InitSources ==
    \E cs \in ListsAround(SourceCategories, {FillerCategory}, MaxRecs) :
        Start(<<>>, Bundle(Intro0, <<>>, <<>>, Taxonomy0, MkCatalogue(cs),
                           FullTemplate),
              <<"sources">>)
NextSources == CallBuildSources
SpecSources == InitSources /\ [][NextSources]_vars

\* the items of the catalogue, category after category
AllItems == Concat(MapSeq(sources.categories, LAMBDA c : c.items))

\* what stands between <li> and </li>, item after item
ItemBodies == Between(sources_html, ItemOpen, ItemClose)

\* the details shown in an item: the texts after each em-dash
ShownDetails(body) == Chunks(body, Dash)

\* the first of author, role, description with a value, if any
FirstOfThree(item) ==
    IF Truthy(item, "author") THEN <<item.author>>
    ELSE IF Truthy(item, "role") THEN <<item.role>>
    ELSE IF Truthy(item, "description") THEN <<item.description>>
    ELSE <<>>

\* C4, as claimed: for every item, named by title or by name, the detail
\* after the em-dash is the first present of author, role, description; at
\* most one is shown; none is shown only when none of the three is present.
C4_DetailIsFirstOfThree ==
    Done =>
        /\ Len(ItemBodies) = Len(AllItems)
        /\ \A k \in 1..Len(AllItems) :
            ShownDetails(ItemBodies[k]) = FirstOfThree(AllItems[k])

\* C4, amended: an item named by its name key shows the first present of
\* author, role, description; an item with a title key shows its author if
\* present and otherwise no detail, whatever its role and description; at
\* most one detail is shown.
C4_DetailByItemKind ==
    Done =>
        /\ Len(ItemBodies) = Len(AllItems)
        /\ \A k \in 1..Len(AllItems) :
            /\ Len(ShownDetails(ItemBodies[k])) <= 1
            /\ ShownDetails(ItemBodies[k])
                 = IF "title" \in DOMAIN AllItems[k]
                   THEN IF Truthy(AllItems[k], "author")
                        THEN <<AllItems[k].author>> ELSE <<>>
                   ELSE FirstOfThree(AllItems[k])

\* rendered together: an item with a title, no author and a role, and an
\* item without title that has a role and no author
C4_Witness ==
    /\ Done
    /\ sources_html # <<>>
    /\ \E k \in 1..Len(AllItems) :
        /\ "title" \in DOMAIN AllItems[k]
        /\ ~Truthy(AllItems[k], "author")
        /\ Truthy(AllItems[k], "role")
    /\ \E k \in 1..Len(AllItems) :
        /\ "title" \notin DOMAIN AllItems[k]
        /\ ~Truthy(AllItems[k], "author")
        /\ Truthy(AllItems[k], "role")


----------------------------------------------------------------------------
(* SpecStage: build_stage_overlay_data on stages whose tool ids resolve or *)
(* not.                                                                    *)

ToolRefStages ==
    {MkStage(S1, nm, refs) :
        nm \in {<<"k">>, <<"U+016B", "\"">>},
        refs \in SeqsUpTo({T1, T2, T9}, MaxRefs)}
FillerStage == MkStage(S2, <<"l">>, <<T1>>)

InitStage ==
    \E st \in ListsAround(ToolRefStages, {FillerStage}, MaxRecs),
       tl \in SeqsUpTo(ToolVariants, MaxRecs) :
        Start(<<>>, Bundle(Intro0, st, tl, Taxonomy0, Catalogue0, FullTemplate),
              <<"lookups", "stage_data">>)
NextStage == MakeLookups \/ CallBuildStageData
SpecStage == InitStage /\ [][NextStage]_vars

\* a stage's tool ids that are keys of the lookup, in the listed order
ResolvedStageTools(stage) ==
    SelectSeq(stage.tools, LAMBDA id : id \in DOMAIN tools_lookup)

\* in the dumped text, the value of "tools" of each stage, stage after stage
DumpedTools ==
    MapSeq(Chunks(stage_data_js, "\"tools\": "),
           LAMBDA c : Upto(c, "\"hotspot\": "))

\* C5: build_stage_overlay_data gives one projected record per stage, in
\* stage order; its tools are the (id, name) pairs of exactly the stage's
\* tool ids that are keys of the tools lookup, in listed order, the name
\* from the looked-up tool; id, both names, as_stage, as_state,
\* reflection_questions and hotspot are the stage's own; ids that do not
\* resolve are dropped without failure.  The same is read back from the
\* dumped text.
C5_ProjectionKeepsResolvedTools ==
    Done =>
        /\ Len(stage_data) = Len(stages)
        /\ \A i \in 1..Len(stages) :
            /\ DOMAIN stage_data[i] = DOMAIN stages[i]
            /\ \A key \in DOMAIN stages[i] \ {"tools"} :
                    stage_data[i][key] = stages[i][key]
            /\ stage_data[i].tools
                 = MapSeq(ResolvedStageTools(stages[i]),
                          LAMBDA id : [id |-> id,
                                       name |-> tools_lookup[id].name])
        /\ Between(stage_data_js, "\"name_maori\": ", ",\n")
             = MapSeq(stages, LAMBDA st : JsonStr(st.name_maori))
        /\ Len(DumpedTools) = Len(stages)
        /\ \A i \in 1..Len(stages) :
            /\ Between(DumpedTools[i], "\"id\": ", ",\n")
                 = MapSeq(ResolvedStageTools(stages[i]), JsonStr)
            /\ Between(DumpedTools[i], "\"name\": ", "\n}")
                 = MapSeq(ResolvedStageTools(stages[i]),
                          LAMBDA id : JsonStr(tools_lookup[id].name))

\* a projected stage lists a tool id that resolves and one that does not
C5_Witness ==
    /\ Done
    /\ stage_data_js # <<>>
    /\ \E i \in 1..Len(stages) :
        /\ ResolvedStageTools(stages[i]) # <<>>
        /\ ResolvedStageTools(stages[i]) # stages[i].tools


----------------------------------------------------------------------------
(* SpecEntries: the four section renderers on lists of records that can be *)
(* told apart, one list varied at a time.                                  *)

EntryTools == {MkTool(T1, <<"H">>, <<S1>>, <<M1>>),
               MkTool(T2, <<"K">>, <<S9>>, <<M9>>)}
EntryMuscles == {MkMuscle(M1, <<"n">>, <<T1>>), MkMuscle(M2, <<"o">>, <<T9>>)}
EntryDimensions ==
    {MkDimension(<<"d", "1">>, ms) : ms \in SeqsUpTo(EntryMuscles, MaxRecs)}
    \cup {FillerDimension}
EntryItems == {FillerItem,
               [title |-> <<"T">>, author |-> <<"a">>, link |-> <<"u">>]}
EntryCategories ==
    {MkCategory(<<"c">>, its) : its \in SeqsUpTo(EntryItems, MaxRecs)}
    \cup {FillerCategory}
EntrySections == {MkSection(<<"x">>), MkSection(<<"y">>)}
EntryStages == <<MkStage(S1, <<"k">>, <<T1>>)>>

EntryBundles ==
    {Bundle(Intro0, EntryStages, tl, Taxonomy0, Catalogue0, FullTemplate) :
        tl \in SeqsUpTo(EntryTools, MaxRecs)}
    \cup
    {Bundle(Intro0, EntryStages, <<>>, MkTaxonomy(ds), Catalogue0,
            FullTemplate) :
        ds \in SeqsUpTo(EntryDimensions, MaxRecs)}
    \cup
    {Bundle(Intro0, EntryStages, <<>>, Taxonomy0, MkCatalogue(cs),
            FullTemplate) :
        cs \in SeqsUpTo(EntryCategories, MaxRecs)}
    \cup
    {Bundle(MkIntro(<<"t">>, secs) @@ Opt("video", v), EntryStages, <<>>,
            Taxonomy0, Catalogue0, FullTemplate) :
        secs \in SeqsUpTo(EntrySections, MaxRecs),
        v \in {<<>>, << <<"v">> >>}}

InitEntries ==
    \E b \in EntryBundles :
        Start(<<>>, b, <<"lookups", "intro", "tools", "muscles", "sources">>)
NextEntries ==
    \/ MakeLookups
    \/ CallBuildIntro
    \/ CallBuildTools
    \/ CallBuildMuscles
    \/ CallBuildSources
SpecEntries == InitEntries /\ [][NextEntries]_vars

\* the name shown for an item, read from between its <li> and </li>
ShownItemName(body) ==
    IF Has(body, ItemLinkMid)
    THEN Upto(After(body, ItemLinkMid), ItemLinkClose)
    ELSE Upto(body, Dash)

\* the parts of muscles_html and sources_html, one per dimension, category
DimensionParts == Chunks(muscles_html, DimensionOpen)
CategoryParts == Chunks(sources_html, CategoryOpen)

\* C6: every renderer emits one entry per input record, in input order:
\* tools; dimensions and the muscles in each; categories and the items in
\* each; intro sections.  None is dropped, doubled or moved, a tool or
\* muscle none of whose references resolve included.
C6_EntriesFollowInputOrder ==
    Done =>
        /\ MapSeq(ToolEntries, LAMBDA e : Upto(e, ToolEntryMid))
             = MapSeq(tools, LAMBDA t : <<ToolAnchor>> \o t.id)
        /\ MapSeq(ToolEntries,
                  LAMBDA e : Upto(After(e, ToolEntryMid),
                                  "</h3>\n<p class=\"description\">"))
             = MapSeq(tools, LAMBDA t : t.name)
        /\ MapSeq(DimensionParts, LAMBDA p : Upto(p, DimensionMid))
             = MapSeq(muscles.dimensions, LAMBDA d : d.id)
        /\ \A k \in 1..Len(muscles.dimensions) :
             Between(DimensionParts[k], DivIdOpen, MuscleEntryMid)
               = MapSeq(muscles.dimensions[k].muscles,
                        LAMBDA m : <<MuscleAnchor>> \o m.id)
        /\ MapSeq(CategoryParts, LAMBDA p : Upto(p, CategoryMid))
             = MapSeq(sources.categories, LAMBDA c : c.name)
        /\ \A k \in 1..Len(sources.categories) :
             MapSeq(Between(CategoryParts[k], ItemOpen, ItemClose),
                    ShownItemName)
               = MapSeq(sources.categories[k].items, item_name)
        /\ Between(intro_html, IntroBlockOpen, IntroBlockMid)
             = MapSeq(intro.sections, LAMBDA sec : sec.heading)

\* two different tools were rendered, one of them with no reference that
\* resolves
C6_Witness ==
    /\ Done
    /\ Len(tools) >= 2 /\ tools[1] # tools[2]
    /\ Len(ToolEntries) = Len(tools)
    /\ \E i \in 1..Len(tools) :
        \A k \in 1..Len(tools[i].stages) :
            tools[i].stages[k] \notin DOMAIN stages_lookup


----------------------------------------------------------------------------
(* Spec: build_html, whole, on every template of at most MaxTpl symbols    *)
(* and on records whose text is plain or equal to a placeholder token.     *)

TemplateSymbols == Tokens \cup {"x"}
TitleTexts == {<<"t">>} \cup {<<tok>> : tok \in Tokens}
ToolNameTexts == {<<"H">>, <<STAGE_DATA>>}

BuildBundles ==
    {Bundle(MkIntro(ti, <<MkSection(<<"x">>)>>),
            <<MkStage(S1, <<"k">>, <<T1, T9>>)>>,
            <<MkTool(T1, nm, <<S1, S9>>, <<M1>>)>>,
            MkTaxonomy(<<MkDimension(<<"d", "1">>,
                                     <<MkMuscle(M1, <<"n">>, <<T1>>)>>)>>),
            MkCatalogue(<<MkCategory(<<"c">>, <<FillerItem>>)>>),
            tp) :
        ti \in TitleTexts,
        nm \in ToolNameTexts,
        tp \in SeqsUpTo(TemplateSymbols, MaxTpl)}

Init ==
    \E b \in BuildBundles :
        Start(<<>>, b, BuildSteps)
Next ==
    \/ MakeLookups
    \/ CallBuildIntro
    \/ CallBuildTools
    \/ CallBuildMuscles
    \/ CallBuildSources
    \/ CallBuildStageData
    \/ ReplaceIntro
    \/ ReplaceTools
    \/ ReplaceMuscles
    \/ ReplaceSources
    \/ ReplaceStageData
Spec == Init /\ [][Next]_vars

\* the output generated for a placeholder token
OutputFor(tok) ==
    CASE tok = INTRO_SECTION -> intro_html
      [] tok = TOOLS_SECTION -> tools_html
      [] tok = MUSCLES_SECTION -> muscles_html
      [] tok = SOURCES_SECTION -> sources_html
      [] tok = STAGE_DATA -> stage_data_js

\* text t with each token of it replaced by that token's output, the
\* outputs themselves left as generated
Substituted(t) ==
    Concat([k \in 1..Len(t) |->
              IF t[k] \in Tokens THEN OutputFor(t[k]) ELSE <<t[k]>>])

\* C1: the document build_html returns is the template with every
\* occurrence of each of the five tokens replaced by its own generated
\* output and nothing else changed; each inserted output stands in the
\* document as its renderer produced it, also when record content holds a
\* text equal to a token.
C1_DocumentIsTemplateSubstituted ==
    Done => html = Substituted(template)

\* C7: when the template lacks a token, build_html does not fail: the other
\* tokens are replaced by their full outputs as with a complete template,
\* and the output generated for the missing token is nowhere in the
\* document.
C7_MissingTokenOnlyDropsItsSection ==
    Done =>
        \A tok \in Tokens :
            ~Has(template, tok) =>
                /\ \A k \in 1..Len(template) :
                     template[k] \in Tokens =>
                        HasSub(html, OutputFor(template[k]))
                /\ ~HasSub(html, OutputFor(tok))

\* no generated output holds a token: the case in which the chained
\* replaces cannot rewrite an inserted output
NoTokenInOutputs ==
    \A tok \in Tokens, other \in Tokens : ~Has(OutputFor(tok), other)

\* what holds of the chained replaces: with no token inside any output they
\* are the substitution C1 and C7 describe
ChainedReplaceExactWithoutTokens ==
    Done /\ NoTokenInOutputs =>
        /\ C1_DocumentIsTemplateSubstituted
        /\ C7_MissingTokenOnlyDropsItsSection


----------------------------------------------------------------------------
(* SpecOrder: build_html in the order of the code, then once more on the   *)
(* same records with the five generating calls in any order.               *)

\* the orders in which the five generating calls can be made
RenderOrders ==
    {p \in [1..5 -> {RenderSteps[k] : k \in 1..5}] :
        \A i, j \in 1..5 : i # j => p[i] # p[j]}

OrderBundles ==
    {Bundle(MkIntro(<<"t">>, <<MkSection(<<"x">>)>>),
            <<MkStage(S1, <<"k">>, <<T1, T9>>)>>,
            tl,
            MkTaxonomy(<<MkDimension(<<"d", "1">>,
                                     <<MkMuscle(M1, <<"n">>, <<T1>>)>>)>>),
            MkCatalogue(<<MkCategory(<<"c">>, <<FillerItem>>)>>),
            FullTemplate) :
        tl \in SeqsUpTo(EntryTools, MaxRecs)}

InitOrder ==
    \E b \in OrderBundles, p \in RenderOrders :
        Start(<<>>, b,
              BuildSteps \o <<"again", "lookups">> \o p \o ReplaceSteps)
NextOrder ==
    \/ MakeLookups
    \/ CallBuildIntro
    \/ CallBuildTools
    \/ CallBuildMuscles
    \/ CallBuildSources
    \/ CallBuildStageData
    \/ ReplaceIntro
    \/ ReplaceTools
    \/ ReplaceMuscles
    \/ ReplaceSources
    \/ ReplaceStageData
    \/ CallBuildHtmlAgain
SpecOrder == InitOrder /\ [][NextOrder]_vars

\* the place of a step in the second build's part of plan
PlaceInSecondBuild(step) ==
    CHOOSE k \in (Len(BuildSteps) + 2)..Len(plan) : plan[k] = step

\* C10: the document depends only on the records and the template: the
\* renderers and the projector leave the two lookups as they were built, so
\* a build that makes the five generating calls in any order ends with the
\* same five outputs and the same document as the build in the order of
\* build_html, and a second build on the same inputs gives the same
\* document.
C10_AnyOrderSameDocument ==
    Done /\ builds = 2 =>
        /\ html = prev_html
        /\ tools_lookup = Lookup(tools) /\ stages_lookup = Lookup(stages)
        /\ intro_html = build_intro_html(intro)
        /\ tools_html = build_tools_html(tools, Lookup(stages))
        /\ muscles_html = build_muscles_html(muscles, Lookup(tools))
        /\ sources_html = build_sources_html(sources)
        /\ stage_data_js = build_stage_overlay_data(stages, Lookup(tools))

\* a second build has ended in which the projector ran before the muscles
\* renderer and the tools renderer last, on records with a tool that resolves
C10_Witness ==
    /\ Done /\ builds = 2
    /\ html # <<>>
    /\ DOMAIN tools_lookup # {}
    /\ PlaceInSecondBuild("stage_data") < PlaceInSecondBuild("muscles")
    /\ \A k \in 1..5 :
        PlaceInSecondBuild(RenderSteps[k]) <= PlaceInSecondBuild("tools")

====
